---- MODULE Spec2Model ----
(***************************************************************************)
(* Model of Datacite_DOI_checker.py: the paginated catalog fetch           *)
(* (fetch_all_dois), the per-identifier resolution check with retries      *)
(* (check_doi_resolves), the thread pool that runs the checks, the         *)
(* as_completed loop that joins the outcomes into report rows, the CSV     *)
(* text of the report (generate_csv) and the st.cache_data cache of the    *)
(* fetch across script runs of one session.                                *)
(***************************************************************************)
EXTENDS Integers, Sequences, FiniteSets, Bags, TLC

\* ---------------------------------------------------------------- bounds

\* Largest number of records the modelled catalog holds (Spec).
MaxRecords == 3

\* Number of records beyond MAX_WORKERS the catalog holds in SpecCap.
CapExtra == 1

\* Largest number of script runs in one session (SpecRerun).
MaxRuns == 2

\* Number of records the catalog holds in SpecRerun when it answers.
RerunRecords == 1

\* ------------------------------------------------------ program constants

MAX_RETRIES == 3

MAX_WORKERS == 10

\* ------------------------------------------------------------ value model

\* A cell whose Python value is an int (response.status_code).
IntVal(n) == [t |-> "int", n |-> n, s |-> ""]

\* A cell whose Python value is a str.
StrVal(s) == [t |-> "str", n |-> 0, s |-> s]

\* The status of the exhausted-retries outcome (line 88).
TimeoutError == StrVal("Timeout/Error")

\* What one requests.head call can do: answer with a status, or raise
\* requests.RequestException.
Response(code) == [kind |-> "response", status_code |-> code]

RequestException == [kind |-> "exception", status_code |-> 0]

\* HTTP statuses the resolver answers with in the model.
ResolverStatuses == {200, 301, 302, 404, 500}

\* Non-200 statuses the catalog API answers with in the model.
CatalogErrors == {401, 500}

\* What one requests.get of a catalog page returns: a status and the "data"
\* array of the JSON body.
OkPage(items) == [status_code |-> 200, data |-> items]

ErrPage(code) == [status_code |-> code, data |-> <<>>]

\* ------------------------------------------------------- modelled catalogs

\* The (username, password, prefix) triples a user enters in the model.
InputsPool == <<"user:pw:10.1", "user:pw:10.2">>

DoiPool == <<"10.1/a", "10.1/b", "10.1/c", "10.1/d", "10.1/e">>

UrlPool == <<"u1", "u2", "u3", "u4", "u5">>

\* n records with pairwise-distinct identifiers.
DistinctRecords(n) == [i \in 1..n |-> <<DoiPool[i], UrlPool[i]>>]

\* n records in which identifiers repeat with different registered URLs.
RepeatingRecords(n) == [i \in 1..n |-> <<DoiPool[((i - 1) % 2) + 1], UrlPool[i]>>]

\* n copies of one record.
SameRecords(n) == [i \in 1..n |-> <<DoiPool[1], UrlPool[1]>>]

\* Every way of cutting the list L into consecutive non-empty pages.
RECURSIVE Splits(_)
Splits(L) ==
    IF L = <<>> THEN {<<>>}
    ELSE UNION { { <<OkPage(SubSeq(L, 1, k))>> \o rest :
                     rest \in Splits(SubSeq(L, k + 1, Len(L))) } : k \in 1..Len(L) }

\* The catalogs that serve L: every split of L, and every split cut short by
\* a non-200 answer at some page.
CatalogsOf(L) ==
    Splits(L) \cup
    UNION { { SubSeq(S, 1, j - 1) \o <<ErrPage(c)>> : j \in 1..(Len(S) + 1), c \in CatalogErrors }
            : S \in Splits(L) }

\* ------------------------------------------------------------------ state

VARIABLES
    catalog,    \* environment: the catalog's answer to page p is catalog[p]
    net,        \* environment: what a requests.head call can do in this run
    pc,         \* position of the script's main thread
    page,       \* fetch_all_dois: page
    dois,       \* fetch_all_dois: dois, then the main flow's dois
    reqLog,     \* history: the page requests issued, with their answers
    pauses,     \* history: number of time.sleep(1) calls of fetch_all_dois
    futures,    \* main flow: futures.values(), in submission order
    threads,    \* executor: number of worker threads created
    queue,      \* executor: work items submitted and not yet started
    running,    \* executor: bag of the check_doi_resolves calls in flight
    early,      \* futures finished before as_completed was entered, in completion order
    late,       \* futures finished after that, in completion order
    results,    \* main flow: results
    progress,   \* history: the (i + 1, len(futures)) pairs shown
    report,     \* main flow: df, summary and CSV once built
    args,       \* the (username, password, prefix) the script run was started with
    cache,      \* st.cache_data: the stored return values of fetch_all_dois by args
    runs        \* history: number of script runs started in the session

vars == <<catalog, net, pc, page, dois, reqLog, pauses, futures, threads, queue,
          running, early, late, results, progress, report, args, cache, runs>>

sessionVars == <<args, cache, runs>>

fetchVars == <<page, dois, reqLog, pauses>>

poolVars == <<futures, threads, queue, running, early, late, results, progress>>

\* The cache of a session in which fetch_all_dois was not called yet.
NoCache == [a \in {} |-> <<>>]

NoReport == [built |-> FALSE, rows |-> <<>>, summary |-> <<>>, csv |-> <<>>]

\* -------------------------------------------------------- fetch_all_dois

\* The catalog's answer to the request for page p; beyond the modelled
\* pages the catalog has no more items.
PageResponse(p) == IF p <= Len(catalog) THEN catalog[p] ELSE OkPage(<<>>)

\* Line 61: the answer is taken as a failure.
IsFailure(response) == response.status_code # 200

\* Mutant of FailureResult: the records fetched so far are returned.
FailureResultPartial(fetched) == fetched

\* Line 63: what fetch_all_dois returns on a failure, dois being the records
\* of the pages before.
FailureResult(fetched) == <<>>

\* Mutant of NoItems: a page with fewer than two items ends the pagination.
NoItemsShort(response) == Len(response.data) < 2

\* Line 66: the page has no items.
NoItems(response) == response.data = <<>>

\* Mutant of NextPage: a page number is skipped.
NextPageSkip(p) == p + 2

\* Line 72: page += 1.
NextPage(p) == p + 1

\* Line 54: st.cache_data stores the value a call returns under the call's
\* arguments, whatever the value is.
Stored(c, a, value) == (a :> value) @@ c

\* Lines 59-63: the request for the current page answers non-200; return [].
FetchFail ==
    /\ pc = "fetch"
    /\ LET response == PageResponse(page) IN
        /\ IsFailure(response)
        /\ reqLog' = Append(reqLog, [page |-> page, status_code |-> response.status_code,
                                     size |-> 0])
        /\ dois' = FailureResult(dois)
    /\ cache' = Stored(cache, args, dois')
    /\ pc' = "fetched"
    /\ UNCHANGED <<catalog, net, page, pauses, report, args, runs>>
    /\ UNCHANGED poolVars

\* Mutant of FetchEmpty: the pause is taken after the empty page too.
FetchEmptyPausing ==
    /\ pc = "fetch"
    /\ LET response == PageResponse(page) IN
        /\ ~IsFailure(response)
        /\ NoItems(response)
        /\ reqLog' = Append(reqLog, [page |-> page, status_code |-> response.status_code,
                                     size |-> 0])
    /\ cache' = Stored(cache, args, dois)
    /\ pc' = "fetched"
    /\ pauses' = pauses + 1
    /\ UNCHANGED <<catalog, net, page, dois, report, args, runs>>
    /\ UNCHANGED poolVars

\* Lines 59-67, 74: the page has no items; leave the loop and return dois.
FetchEmpty ==
    /\ pc = "fetch"
    /\ LET response == PageResponse(page) IN
        /\ ~IsFailure(response)
        /\ NoItems(response)
        /\ reqLog' = Append(reqLog, [page |-> page, status_code |-> response.status_code,
                                     size |-> 0])
    /\ cache' = Stored(cache, args, dois)
    /\ pc' = "fetched"
    /\ UNCHANGED <<catalog, net, page, dois, pauses, report, args, runs>>
    /\ UNCHANGED poolVars

\* Lines 59-73: the page has items; append them, go to the next page, sleep.
FetchPage ==
    /\ pc = "fetch"
    /\ LET response == PageResponse(page) IN
        /\ ~IsFailure(response)
        /\ ~NoItems(response)
        /\ reqLog' = Append(reqLog, [page |-> page, status_code |-> response.status_code,
                                     size |-> Len(response.data)])
        /\ dois' = dois \o response.data
    /\ page' = NextPage(page)
    /\ pauses' = pauses + 1
    /\ UNCHANGED <<catalog, net, pc, report>>
    /\ UNCHANGED poolVars
    /\ UNCHANGED sessionVars

\* ---------------------------------------------------------- the main flow

\* Line 108, dois empty: nothing is checked and nothing is reported.
SkipChecks ==
    /\ pc = "fetched"
    /\ dois = <<>>
    /\ pc' = "done"
    /\ UNCHANGED <<catalog, net, report>>
    /\ UNCHANGED fetchVars
    /\ UNCHANGED sessionVars
    /\ UNCHANGED poolVars

\* Lines 108-115: dois non-empty; results = [] and the executor is created.
StartChecks ==
    /\ pc = "fetched"
    /\ dois # <<>>
    /\ pc' = "submit"
    /\ results' = <<>>
    /\ UNCHANGED <<catalog, net, report, futures, threads, queue, running, early, late,
                   progress>>
    /\ UNCHANGED fetchVars
    /\ UNCHANGED sessionVars

\* Mutant of MaySpawn: one thread more than the cap.
MaySpawnOneMore(n) == n <= MAX_WORKERS

\* Line 115: max_workers=MAX_WORKERS; submit creates a worker thread while
\* fewer than that many exist.
MaySpawn(n) == n < MAX_WORKERS

\* Line 116: executor.submit for the next record of dois: the work item is
\* queued and a worker thread is created if the cap allows.
Submit ==
    /\ pc = "submit"
    /\ Len(futures) < Len(dois)
    /\ LET rec == dois[Len(futures) + 1] IN
        /\ futures' = Append(futures, rec)
        /\ queue' = Append(queue, rec[1])
    /\ threads' = IF MaySpawn(threads) THEN threads + 1 ELSE threads
    /\ UNCHANGED <<catalog, net, pc, report, running, early, late, results, progress>>
    /\ UNCHANGED fetchVars
    /\ UNCHANGED sessionVars

\* Line 117: every record is submitted; as_completed(futures) is entered.
EnterLoop ==
    /\ pc = "submit"
    /\ Len(futures) = Len(dois)
    /\ pc' = "collect"
    /\ UNCHANGED <<catalog, net, report>>
    /\ UNCHANGED fetchVars
    /\ UNCHANGED sessionVars
    /\ UNCHANGED poolVars

\* ------------------------------------------------- ThreadPoolExecutor

InFlight == BagCardinality(running)

\* A call of check_doi_resolves as a worker starts it (lines 77-78), with the
\* history of its attempts.
NewCall(doi) == [doi |-> doi, retries |-> 0, log |-> <<>>, sleeps |-> 0]

\* An idle worker thread takes the oldest work item and calls
\* check_doi_resolves.
StartTask ==
    /\ queue # <<>>
    /\ InFlight < threads
    /\ running' = running (+) SetToBag({NewCall(Head(queue))})
    /\ queue' = Tail(queue)
    /\ UNCHANGED <<catalog, net, pc, report, futures, threads, early, late, results,
                   progress>>
    /\ UNCHANGED fetchVars
    /\ UNCHANGED sessionVars

\* ------------------------------------------------- check_doi_resolves

\* Mutant of LoopGuard: one attempt fewer.
LoopGuardStrict(retries) == retries < MAX_RETRIES

\* Mutant of LoopGuard: the loop never gives up.
LoopGuardForever(retries) == TRUE

\* Mutant of LoopGuard: one attempt more.
LoopGuardOneMore(retries) == retries <= MAX_RETRIES + 1

\* Line 79: the loop condition.
LoopGuard(retries) == retries <= MAX_RETRIES

\* Mutant of Classify: 302 is not taken as resolving.
ClassifyNo302(status_code) == IF status_code \in {200, 301} THEN "Yes" ELSE "No"

\* Line 83.
Classify(status_code) == IF status_code \in {200, 301, 302} THEN "Yes" ELSE "No"

\* Mutant of Raises: a 5xx answer is handled like a failed attempt.
RaisesOnServerError(r) == r.kind = "exception" \/ r.status_code >= 500

\* Mutant of Raises: a 404 answer is handled like a failed attempt.
RaisesOnNotFound(r) == r.kind = "exception" \/ r.status_code = 404

\* Lines 80-85: the attempt raises requests.RequestException.
Raises(r) == r.kind = "exception"

\* The future's result, with the history of the call that produced it.
Outcome(call, resolves, status) ==
    [doi |-> call.doi, resolves |-> resolves, status_code |-> status,
     log |-> call.log, sleeps |-> call.sleeps]

\* The future of a call is set to its result: it is among the finished
\* futures as_completed starts from, or is appended to the waiter's list.
Finish(call, out) ==
    /\ running' = running (-) SetToBag({call})
    /\ IF pc = "collect"
       THEN /\ late' = Append(late, out)
            /\ early' = early
       ELSE /\ early' = Append(early, out)
            /\ late' = late

\* Lines 79-84: an attempt is answered; return (doi, resolves, status_code).
AttemptReturns ==
    \E call \in BagToSet(running), r \in net :
        /\ LoopGuard(call.retries)
        /\ ~Raises(r)
        /\ Finish(call, Outcome([call EXCEPT !.log = Append(@, r)],
                                Classify(r.status_code), IntVal(r.status_code)))
        /\ UNCHANGED <<catalog, net, pc, report, futures, threads, queue, results, progress>>
        /\ UNCHANGED fetchVars
        /\ UNCHANGED sessionVars

\* Lines 79-81, 85-87: an attempt raises; retries += 1 and sleep.
AttemptRaises ==
    \E call \in BagToSet(running), r \in net :
        /\ LoopGuard(call.retries)
        /\ Raises(r)
        /\ running' = (running (-) SetToBag({call})) (+)
                      SetToBag({[call EXCEPT !.retries = @ + 1, !.log = Append(@, r),
                                             !.sleeps = @ + 1]})
        /\ UNCHANGED <<catalog, net, pc, report, futures, threads, queue, early, late,
                       results, progress>>
        /\ UNCHANGED fetchVars
        /\ UNCHANGED sessionVars

\* Lines 79, 88: the loop condition fails; return (doi, "No", "Timeout/Error").
Exhausted ==
    \E call \in BagToSet(running) :
        /\ ~LoopGuard(call.retries)
        /\ Finish(call, Outcome(call, "No", TimeoutError))
        /\ UNCHANGED <<catalog, net, pc, report, futures, threads, queue, results, progress>>
        /\ UNCHANGED fetchVars
        /\ UNCHANGED sessionVars

\* ------------------------------------------------- the as_completed loop

\* Line 119: dict(futures.values())[doi]; of the pairs with that identifier
\* the dict keeps the last.
RegUrlOf(doi) ==
    LET idx == { k \in 1..Len(futures) : futures[k][1] = doi } IN
    futures[CHOOSE k \in idx : \A j \in idx : j <= k][2]

\* Line 120: the row appended to results.
Row(out) == <<out.doi, RegUrlOf(out.doi), out.resolves, out.status_code>>

\* Mutant of Shown: the count of the iterations before this one is shown.
ShownZeroBased(i) == <<i, Len(futures)>>

\* Lines 121-122: what the progress bar and text show in iteration i.
Shown(i) == <<i + 1, Len(futures)>>

\* Mutant of Iterate: the row replaces the rows collected so far.
IterateOverwrite(out) ==
    /\ results' = <<Row(out)>>
    /\ progress' = Append(progress, Shown(Len(progress)))

\* Lines 117-122: one iteration of the loop on the future as_completed
\* yields. i of enumerate is the number of iterations made before this one.
Iterate(out) ==
    /\ results' = Append(results, Row(out))
    /\ progress' = Append(progress, Shown(Len(results)))

\* as_completed first yields the futures that were finished when it was
\* entered, iterating a set of them: in any order.
YieldEarly ==
    /\ pc = "collect"
    /\ \E k \in 1..Len(early) :
        /\ early' = SubSeq(early, 1, k - 1) \o SubSeq(early, k + 1, Len(early))
        /\ Iterate(early[k])
    /\ UNCHANGED <<catalog, net, pc, report, futures, threads, queue, running, late>>
    /\ UNCHANGED fetchVars
    /\ UNCHANGED sessionVars

\* Mutant of YieldLate: the newest finished future is yielded first.
YieldLateNewest ==
    /\ pc = "collect"
    /\ early = <<>>
    /\ late # <<>>
    /\ late' = SubSeq(late, 1, Len(late) - 1)
    /\ Iterate(late[Len(late)])
    /\ UNCHANGED <<catalog, net, pc, report, futures, threads, queue, running, early>>
    /\ UNCHANGED fetchVars
    /\ UNCHANGED sessionVars

\* Then it yields the others as they finish, in completion order.
YieldLate ==
    /\ pc = "collect"
    /\ early = <<>>
    /\ late # <<>>
    /\ late' = Tail(late)
    /\ Iterate(Head(late))
    /\ UNCHANGED <<catalog, net, pc, report, futures, threads, queue, running, early>>
    /\ UNCHANGED fetchVars
    /\ UNCHANGED sessionVars

\* Mutant of NonePending: the loop ends as soon as no finished future waits.
NonePendingReady ==
    /\ early = <<>>
    /\ late = <<>>

\* as_completed is exhausted when no future is pending: every future has
\* finished and has been yielded.
NonePending ==
    /\ queue = <<>>
    /\ running = EmptyBag
    /\ early = <<>>
    /\ late = <<>>

\* Lines 117, 123-124: the loop ends, the with block is left (shutdown waits
\* for the workers) and "DOI checks complete!" is shown.
LeaveLoop ==
    /\ pc = "collect"
    /\ NonePending
    /\ pc' = "complete"
    /\ UNCHANGED <<catalog, net, report>>
    /\ UNCHANGED fetchVars
    /\ UNCHANGED sessionVars
    /\ UNCHANGED poolVars

\* Mutant of ValueCounts: the last row is not counted.
ValueCountsShort(rows) ==
    LET vals == { rows[k][3] : k \in 1..Len(rows) } IN
    [v \in vals |-> Cardinality({ k \in 1..(Len(rows) - 1) : rows[k][3] = v })]

\* Line 131: value_counts of the Resolves column: each value that occurs,
\* with the number of rows holding it.
ValueCounts(rows) ==
    LET vals == { rows[k][3] : k \in 1..Len(rows) } IN
    [v \in vals |-> Cardinality({ k \in 1..Len(rows) : rows[k][3] = v })]

\* ------------------------------------------------------------ generate_csv

\* The characters of the strings that occur in the model.
Chars ==
    "10.1/a" :> <<"1", "0", ".", "1", "/", "a">> @@
    "10.1/b" :> <<"1", "0", ".", "1", "/", "b">> @@
    "10.1/c" :> <<"1", "0", ".", "1", "/", "c">> @@
    "10.1/d" :> <<"1", "0", ".", "1", "/", "d">> @@
    "10.1/e" :> <<"1", "0", ".", "1", "/", "e">> @@
    "u1" :> <<"u", "1">> @@
    "u2" :> <<"u", "2">> @@
    "u3" :> <<"u", "3">> @@
    "u4" :> <<"u", "4">> @@
    "u5" :> <<"u", "5">> @@
    "10.1/a,b" :> <<"1", "0", ".", "1", "/", "a", ",", "b">> @@
    "u,1" :> <<"u", ",", "1">> @@
    "u\"2" :> <<"u", "\"", "2">> @@
    "Yes" :> <<"Y", "e", "s">> @@
    "No" :> <<"N", "o">> @@
    "Timeout/Error" :> <<"T", "i", "m", "e", "o", "u", "t", "/", "E", "r", "r", "o", "r">> @@
    "DOI" :> <<"D", "O", "I">> @@
    "Registered URL" :> <<"R", "e", "g", "i", "s", "t", "e",
                          "r", "e", "d", " ", "U", "R", "L">> @@
    "Resolves" :> <<"R", "e", "s", "o", "l", "v", "e", "s">> @@
    "HTTP Status Code" :> <<"H", "T", "T", "P", " ", "S", "t", "a",
                            "t", "u", "s", " ", "C", "o", "d", "e">>

\* str(n) of a non-negative int: its decimal digits.
RECURSIVE Decimal(_)
Decimal(n) ==
    LET digit == <<"0", "1", "2", "3", "4", "5", "6", "7", "8", "9">>[(n % 10) + 1] IN
    IF n < 10 THEN <<digit>> ELSE Decimal(n \div 10) \o <<digit>>

\* The text csv.writer writes for a cell: a str as it is, an int as str(int).
CellText(cell) == IF cell.t = "int" THEN Decimal(cell.n) ELSE Chars[cell.s]

\* The texts of the cells of a report row: identifier, registered URL and
\* resolves are strs, the status is an int or a str.
RowTexts(row) == <<Chars[row[1]], Chars[row[2]], Chars[row[3]], CellText(row[4])>>

\* The csv module's default dialect (excel): delimiter, quotechar and
\* lineterminator.
Delimiter == ","

QuoteChar == "\""

LineTerminator == <<"\r", "\n">>

\* Mutant of NeedsQuote: a field holding the delimiter is written bare.
NeedsQuoteNoDelimiter(text) ==
    \E k \in 1..Len(text) : text[k] \in {QuoteChar, "\r", "\n"}

\* QUOTE_MINIMAL: a field is quoted when it holds the delimiter, the
\* quotechar or a character of the lineterminator.
NeedsQuote(text) ==
    \E k \in 1..Len(text) : text[k] \in {Delimiter, QuoteChar, "\r", "\n"}

\* doublequote: every quotechar of a quoted field is written twice.
RECURSIVE Doubled(_)
Doubled(text) ==
    IF text = <<>> THEN <<>>
    ELSE (IF Head(text) = QuoteChar THEN <<QuoteChar, QuoteChar>> ELSE <<Head(text)>>)
         \o Doubled(Tail(text))

\* One field as the writer writes it.
WriteField(text) ==
    IF NeedsQuote(text) THEN <<QuoteChar>> \o Doubled(text) \o <<QuoteChar>> ELSE text

RECURSIVE JoinFields(_)
JoinFields(texts) ==
    IF Len(texts) = 1 THEN WriteField(texts[1])
    ELSE WriteField(texts[1]) \o <<Delimiter>> \o JoinFields(Tail(texts))

\* writer.writerow: the fields joined by the delimiter, then the
\* lineterminator.
writerow(texts) == JoinFields(texts) \o LineTerminator

\* writer.writerows: writerow for each row in order.
RECURSIVE writerows(_)
writerows(data) ==
    IF data = <<>> THEN <<>> ELSE writerow(RowTexts(Head(data))) \o writerows(Tail(data))

\* Line 93: the header row.
Header == <<"DOI", "Registered URL", "Resolves", "HTTP Status Code">>

\* Lines 90-95: the text generate_csv returns.
generate_csv(data) ==
    writerow([j \in 1..Len(Header) |-> Chars[Header[j]]]) \o writerows(data)

\* ------------------------------------------------------------- csv.reader

\* The reader of the csv module with the same dialect, one character at a
\* time. ReadField reads one field from position i: state is the reader's
\* state and field the characters read so far. It stops at the end of the
\* text, at a line end outside a quoted field (not consumed) or behind a
\* delimiter outside a quoted field.
RECURSIVE ReadField(_, _, _, _)
ReadField(text, i, state, field) ==
    IF i > Len(text) THEN [field |-> field, next |-> i, stop |-> "end"]
    ELSE
      LET c == text[i] IN
      IF state = "in_quoted_field"
      THEN IF c = QuoteChar
           THEN ReadField(text, i + 1, "quote_in_quoted_field", field)
           ELSE ReadField(text, i + 1, "in_quoted_field", Append(field, c))
      ELSE IF c \in {"\r", "\n"}
      THEN [field |-> field, next |-> i, stop |-> "line"]
      ELSE IF c = Delimiter
      THEN [field |-> field, next |-> i + 1, stop |-> "delimiter"]
      ELSE IF c = QuoteChar /\ state = "start_field"
      THEN ReadField(text, i + 1, "in_quoted_field", field)
      ELSE IF c = QuoteChar /\ state = "quote_in_quoted_field"
      THEN ReadField(text, i + 1, "in_quoted_field", Append(field, c))
      ELSE ReadField(text, i + 1, "in_field", Append(field, c))

\* The fields of the record that starts at position i, behind the fields of
\* row, and the position where the record ends.
RECURSIVE ReadRecord(_, _, _)
ReadRecord(text, i, row) ==
    LET f == ReadField(text, i, "start_field", <<>>) IN
    IF f.stop = "delimiter" THEN ReadRecord(text, f.next, Append(row, f.field))
    ELSE [row |-> Append(row, f.field), next |-> f.next]

\* The position behind the line end at position i: "\r\n", "\r" or "\n".
AfterLineEnd(text, i) ==
    IF i > Len(text) THEN i
    ELSE IF text[i] = "\r" /\ i < Len(text) /\ text[i + 1] = "\n" THEN i + 2
    ELSE i + 1

\* The records from position i on, behind rows; an empty line reads as an
\* empty record.
RECURSIVE ReadRecords(_, _, _)
ReadRecords(text, i, rows) ==
    IF i > Len(text) THEN rows
    ELSE IF text[i] \in {"\r", "\n"}
    THEN ReadRecords(text, AfterLineEnd(text, i), Append(rows, <<>>))
    ELSE LET r == ReadRecord(text, i, <<>>) IN
         ReadRecords(text, AfterLineEnd(text, r.next), Append(rows, r.row))

\* list(csv.reader(...)) of a text: its records, each a list of strs.
csv_reader(text) == ReadRecords(text, 1, <<>>)

\* Lines 127-137: the data frame, the summary and the CSV are built.
BuildReport ==
    /\ pc = "complete"
    /\ report' = [built |-> TRUE, rows |-> results, summary |-> ValueCounts(results),
                  csv |-> generate_csv(results)]
    /\ pc' = "done"
    /\ UNCHANGED <<catalog, net>>
    /\ UNCHANGED fetchVars
    /\ UNCHANGED sessionVars
    /\ UNCHANGED poolVars

\* ---------------------------------------------------------- specifications

\* The resolver's behaviours: in one run its answers are drawn from one of
\* these sets. Together they cover every status of ResolverStatuses, with and
\* without failed attempts before the answer.
Nets ==
    { {Response(200), RequestException},
      {Response(404), RequestException},
      {Response(301), Response(404)},
      {Response(302), Response(500)} }

\* State on entry to fetch_all_dois (lines 101-106, 56-57), the environment
\* left open.
Start ==
    /\ pc = "fetch"
    /\ page = 1
    /\ dois = <<>>
    /\ reqLog = <<>>
    /\ pauses = 0
    /\ futures = <<>>
    /\ threads = 0
    /\ queue = <<>>
    /\ running = EmptyBag
    /\ early = <<>>
    /\ late = <<>>
    /\ results = <<>>
    /\ progress = <<>>
    /\ report = NoReport
    /\ args = InputsPool[1]
    /\ cache = NoCache
    /\ runs = 1

\* Every catalog of up to MaxRecords records with distinct identifiers, and
\* the one-page catalogs of records with repeating identifiers.
Catalogs ==
    UNION { CatalogsOf(DistinctRecords(n)) \cup { <<OkPage(RepeatingRecords(n))>> } :
            n \in 1..MaxRecords }
    \cup CatalogsOf(<<>>)

\* Records whose fields hold the delimiter or the quote character.
CsvRecords == << <<"10.1/a,b", "u,1">>, <<"10.1/c", "u\"2">> >>

\* The catalogs that serve the first record, or both.
CsvCatalogs == CatalogsOf(SubSeq(CsvRecords, 1, 1)) \cup CatalogsOf(CsvRecords)

\* Runs over the catalogs of CsvRecords.
InitCsv ==
    /\ catalog \in CsvCatalogs
    /\ net \in Nets
    /\ Start

\* The resolver's behaviours in which every attempt is answered.
AnsweringNets == { n \in Nets : RequestException \notin n }

\* Every resolver behaviour is run against the catalogs of at most one page;
\* against the catalogs of several pages the resolver answers every attempt
\* (the fetch has returned before the first check is submitted).
Init ==
    /\ catalog \in Catalogs
    /\ net \in (IF Len(catalog) <= 1 THEN Nets ELSE AnsweringNets)
    /\ Start

Next ==
    \/ FetchFail
    \/ FetchEmpty
    \/ FetchPage
    \/ SkipChecks
    \/ StartChecks
    \/ Submit
    \/ EnterLoop
    \/ StartTask
    \/ AttemptReturns
    \/ AttemptRaises
    \/ Exhausted
    \/ YieldEarly
    \/ YieldLate
    \/ LeaveLoop
    \/ BuildReport

Spec == Init /\ [][Next]_vars

\* More records than workers: MAX_WORKERS + CapExtra copies of one record in
\* one page, or a catalog that fails; a resolver that always answers, or one
\* that never does.
CapCatalogs == { <<OkPage(SameRecords(MAX_WORKERS + CapExtra))>>, <<ErrPage(500)>> }

CapNets == { {Response(200)}, {RequestException} }

InitCap ==
    /\ catalog \in CapCatalogs
    /\ net \in CapNets
    /\ Start

SpecCap == InitCap /\ [][Next]_vars

\* What the catalog does in a session: it fails, or it serves RerunRecords
\* records in one page.
RerunCatalogs ==
    { <<ErrPage(c)>> : c \in CatalogErrors } \cup { <<OkPage(DistinctRecords(RerunRecords))>> }

RerunNets == { {Response(200), RequestException} }

\* Lines 101-106 in a later script run of the same session: the button is
\* pressed again after a run has ended, with the same inputs or others, and
\* fetch_all_dois is called. With a value stored for the arguments the
\* decorator returns it and the function body does not run; without one the
\* body runs from line 56. What the catalog answers may have changed.
Rerun ==
    /\ pc = "done"
    /\ runs < MaxRuns
    /\ runs' = runs + 1
    /\ args' \in { InputsPool[k] : k \in DOMAIN InputsPool }
    /\ catalog' \in RerunCatalogs
    /\ IF args' \in DOMAIN cache
       THEN pc' = "fetched" /\ dois' = cache[args']
       ELSE pc' = "fetch" /\ dois' = <<>>
    /\ page' = 1
    /\ reqLog' = <<>>
    /\ pauses' = 0
    /\ futures' = <<>>
    /\ threads' = 0
    /\ queue' = <<>>
    /\ running' = EmptyBag
    /\ early' = <<>>
    /\ late' = <<>>
    /\ results' = <<>>
    /\ progress' = <<>>
    /\ report' = NoReport
    /\ UNCHANGED <<net, cache>>

InitRerun ==
    /\ catalog \in RerunCatalogs
    /\ net \in RerunNets
    /\ Start

NextRerun == Next \/ Rerun

\* A session of up to MaxRuns script runs.
SpecRerun == InitRerun /\ [][NextRerun]_vars

SpecCsv == InitCsv /\ [][Next]_vars

\* ------------------------------------------------------------- properties

\* The futures that are finished and not yet yielded to the loop.
Finished == { early[k] : k \in 1..Len(early) } \cup { late[k] : k \in 1..Len(late) }

Calls == BagToSet(running)

DistinctIds(L) == \A j, k \in 1..Len(L) : L[j][1] = L[k][1] => j = k

RowsOf(rows, doi) == { k \in 1..Len(rows) : rows[k][1] = doi }

AllFailed(log) == \A k \in 1..Len(log) : log[k].kind = "exception"

IsTimeoutRow(row) == row[4] = TimeoutError

\* C1: when the fetched records have pairwise-distinct identifiers, the
\* report that is built has exactly one row per record: as many rows as
\* records, and each record's identifier in exactly one row.
C1_OneRowPerRecord ==
    (report.built /\ DistinctIds(dois)) =>
        /\ Len(report.rows) = Len(dois)
        /\ \A k \in 1..Len(dois) : Cardinality(RowsOf(report.rows, dois[k][1])) = 1

\* Three distinct records, one of them unreachable, reported in an order
\* other than the submission order.
C1_Witness ==
    /\ report.built
    /\ DistinctIds(dois)
    /\ Len(dois) >= 3
    /\ \E k \in 1..Len(report.rows) : IsTimeoutRow(report.rows[k])
    /\ report.rows[1][1] # dois[1][1]

\* C2: the number of check_doi_resolves calls in flight never exceeds
\* MAX_WORKERS (10), also when more records than that are submitted.
C2_InFlightAtMostCap == InFlight <= 10

\* Ten calls in flight while a submitted work item waits for a worker.
C2_Witness == InFlight = 10 /\ queue # <<>> /\ Len(futures) > 10

\* C3: an outcome that comes from an HTTP answer carries that answer's
\* status unchanged and resolves = Yes exactly when the status is 200, 301
\* or 302; the exhausted-retries outcome has resolves = No. The rows built
\* from the outcomes keep this.
C3_Classification ==
    /\ \A out \in Finished :
        LET last == out.log[Len(out.log)] IN
        /\ out.log # <<>>
        /\ last.kind = "response" =>
            /\ out.status_code = IntVal(last.status_code)
            /\ (out.resolves = "Yes") <=> (last.status_code \in {200, 301, 302})
            /\ out.resolves \in {"Yes", "No"}
        /\ last.kind = "exception" => out.resolves = "No"
    /\ \A k \in 1..Len(results) :
        IF results[k][4].t = "int"
        THEN /\ (results[k][3] = "Yes") <=> (results[k][4].n \in {200, 301, 302})
             /\ results[k][3] \in {"Yes", "No"}
        ELSE results[k][3] = "No"

\* A 302 reported as resolving beside a 500 reported as not resolving.
C3_Witness ==
    \E j, k \in 1..Len(results) :
        /\ results[j][4] = IntVal(302) /\ results[j][3] = "Yes"
        /\ results[k][4] = IntVal(500) /\ results[k][3] = "No"

\* C4: a call all of whose attempts failed at the network level returns
\* only after exactly 4 attempts, and returns (No, "Timeout/Error"); no call
\* makes more than 4 attempts.
C4_FourAttemptsThenSentinel ==
    /\ \A out \in Finished :
        AllFailed(out.log) =>
            /\ Len(out.log) = 4
            /\ out.resolves = "No"
            /\ out.status_code = TimeoutError
    /\ \A call \in Calls : Len(call.log) <= 4

\* A call has returned the sentinel outcome after four failed attempts.
C4_Witness ==
    \E out \in Finished :
        /\ AllFailed(out.log)
        /\ Len(out.log) = 4
        /\ out.status_code = TimeoutError

\* C5: an attempt that is answered ends the call: no call makes an attempt
\* after an HTTP answer, whatever the status, and the outcome carries the
\* answer's status; a first attempt answered 404 gives (No, 404) after one
\* attempt.
C5_AnswerNeverRetried ==
    /\ \A call \in Calls : AllFailed(call.log)
    /\ \A out \in Finished :
        /\ AllFailed(SubSeq(out.log, 1, Len(out.log) - 1))
        /\ out.log[Len(out.log)].kind = "response" =>
              out.status_code = IntVal(out.log[Len(out.log)].status_code)
        /\ out.log[1] = Response(404) =>
              /\ Len(out.log) = 1
              /\ out.resolves = "No"
              /\ out.status_code = IntVal(404)

\* A first attempt answered 404 ended its call with (No, 404).
C5_Witness ==
    \E out \in Finished :
        /\ out.log = <<Response(404)>>
        /\ out.resolves = "No"
        /\ out.status_code = IntVal(404)

\* The catalog answers every modelled page with 200 and items; the page
\* after them is empty.
AllPagesOk ==
    \A p \in 1..Len(catalog) : catalog[p].status_code = 200 /\ Len(catalog[p].data) > 0

RECURSIVE SumSizes(_)
SumSizes(pages) ==
    IF pages = <<>> THEN 0
    ELSE Len(pages[1].data) + SumSizes(Tail(pages))

\* C6: when pages 1..k of the catalog are non-empty and page k+1 is empty,
\* fetch_all_dois issues exactly k+1 requests and returns as many records as
\* pages 1..k hold; only the last request met a page without items, and
\* while the fetch runs it can take its next step and has not gone past
\* page k+1.
C6_StopsOnEmptyPage ==
    AllPagesOk =>
        /\ pc = "fetch" =>
            /\ ENABLED (FetchPage \/ FetchEmpty)
            /\ page <= Len(catalog) + 1
            /\ Len(reqLog) = page - 1
            /\ \A j \in 1..Len(reqLog) : reqLog[j].size > 0
        /\ pc # "fetch" =>
            /\ Len(reqLog) = Len(catalog) + 1
            /\ Len(dois) = SumSizes(catalog)
            /\ reqLog[Len(reqLog)].size = 0
            /\ \A j \in 1..(Len(reqLog) - 1) : reqLog[j].size = Len(catalog[j].data)
            /\ \A j \in 1..(Len(reqLog) - 1) : reqLog[j].size > 0

\* Two pages, the first shorter than the second, then the empty page: three
\* requests, and the records of both pages returned.
C6_Witness ==
    /\ pc = "fetched"
    /\ AllPagesOk
    /\ Len(catalog) = 2
    /\ Len(catalog[1].data) < Len(catalog[2].data)
    /\ Len(reqLog) = 3
    /\ Len(dois) = Len(catalog[1].data) + Len(catalog[2].data)

\* C7: a page request answered with a non-200 status is the last request of
\* the fetch; fetch_all_dois returns no records, the records of the pages
\* before are dropped, no check is submitted or started and no report is
\* built.
C7_FailureAbortsRun ==
    \A k \in 1..Len(reqLog) :
        reqLog[k].status_code # 200 =>
            /\ k = Len(reqLog)
            /\ pc \in {"fetched", "done"}
            /\ dois = <<>>
            /\ futures = <<>>
            /\ threads = 0
            /\ queue = <<>>
            /\ running = EmptyBag
            /\ Finished = {}
            /\ results = <<>>
            /\ progress = <<>>
            /\ ~report.built

\* Page 1 held records, page 2 answered 500: the run ended with no records
\* and no report.
C7_Witness ==
    /\ pc = "done"
    /\ Len(reqLog) = 2
    /\ reqLog[1].size > 0
    /\ reqLog[2].status_code = 500
    /\ dois = <<>>
    /\ ~report.built

\* C8: the progress is shown once per completed outcome taken by the loop;
\* the k-th showing is (k, N) for N submitted records, so the counts are
\* 1, 2, ..., and when the loop is left exactly N were shown, (N, N) last
\* and only once.
C8_ProgressCounts ==
    /\ Len(progress) = Len(results)
    /\ pc \in {"collect", "complete", "done"} =>
          \A k \in 1..Len(progress) : progress[k] = <<k, Len(dois)>>
    /\ pc \in {"fetch", "fetched", "submit"} => progress = <<>>
    /\ (pc \in {"complete", "done"} /\ dois # <<>>) =>
          /\ Len(progress) = Len(dois)
          /\ progress[Len(progress)] = <<Len(dois), Len(dois)>>
          /\ Cardinality({ k \in 1..Len(progress) :
                             progress[k] = <<Len(dois), Len(dois)>> }) = 1

\* Three records: (1, 3), (2, 3), (3, 3) were shown.
C8_Witness ==
    /\ pc = "complete"
    /\ progress = << <<1, 3>>, <<2, 3>>, <<3, 3>> >>

\* C9: check_doi_resolves always returns a value: a call in flight has made
\* at most 4 attempts and can take its next step, every finished future
\* holds an outcome, a call that never got an answer returns (No,
\* "Timeout/Error"), and the report that is built has a row for every
\* submitted record, the unreachable ones included.
C9_CheckAlwaysReturns ==
    /\ \A call \in Calls :
        /\ Len(call.log) <= MAX_RETRIES + 1
        /\ call.retries <= MAX_RETRIES + 1
    /\ running # EmptyBag => ENABLED (AttemptReturns \/ AttemptRaises \/ Exhausted)
    /\ \A out \in Finished :
        /\ out.resolves \in {"Yes", "No"}
        /\ out.status_code.t = "int" \/ out.status_code = TimeoutError
    /\ report.built =>
        /\ Len(report.rows) = Len(dois)
        /\ \A k \in 1..Len(dois) : RowsOf(report.rows, dois[k][1]) # {}

\* A report with the row of an unreachable identifier beside the row of one
\* that resolves.
C9_Witness ==
    /\ report.built
    /\ Len(report.rows) >= 2
    /\ \E k \in 1..Len(report.rows) : IsTimeoutRow(report.rows[k])
    /\ \E k \in 1..Len(report.rows) : report.rows[k][3] = "Yes"

\* C10: once the loop is left (the completion message is shown, the report
\* is built) no check is queued, in flight or finished and not yet taken,
\* and results, hence the report, holds one row per submitted record.
C10_LeftOnlyWhenAllDone ==
    (pc = "complete" \/ report.built) =>
        /\ queue = <<>>
        /\ running = EmptyBag
        /\ Finished = {}
        /\ Len(futures) = Len(dois)
        /\ Len(results) = Len(futures)
        /\ report.built => report.rows = results

\* The completion message is shown after three checks; the last of them
\* ended with the sentinel outcome.
C10_Witness ==
    /\ pc = "complete"
    /\ Len(results) = 3
    /\ IsTimeoutRow(results[3])

\* The number of records of L equal to rec.
Occurrences(L, rec) == Cardinality({ k \in 1..Len(L) : L[k] = rec })

\* The number of rows that carry the identifier and the registered URL of rec.
RowsFor(rows, rec) ==
    Cardinality({ k \in 1..Len(rows) : rows[k][1] = rec[1] /\ rows[k][2] = rec[2] })

\* C12: every submitted record yields exactly one report row, and that row
\* carries the identifier and the registered URL of that record, also when
\* identifiers repeat in the catalog: the rows with a record's identifier
\* and URL are as many as the record occurs in dois.
C12_RowCarriesItsRecord ==
    report.built =>
        /\ Len(report.rows) = Len(dois)
        /\ \A k \in 1..Len(dois) :
              RowsFor(report.rows, dois[k]) = Occurrences(dois, dois[k])

\* C14: a call that made k attempts slept k-1 times: time.sleep(RETRY_DELAY)
\* is taken only between two attempts and not after the last one.
C14_SleepsBetweenAttempts ==
    \A out \in Finished : out.sleeps = Len(out.log) - 1

\* C17: an outcome carries "Timeout/Error" exactly when no attempt of its
\* call was answered, which takes 4 failed attempts; such an outcome, and
\* the row built from it, has resolves = No.
C17_SentinelIffNeverAnswered ==
    /\ \A out \in Finished :
        /\ (out.status_code = TimeoutError) <=> AllFailed(out.log)
        /\ out.status_code = TimeoutError => (Len(out.log) = 4 /\ out.resolves = "No")
        /\ out.resolves = "Yes" => out.status_code.t = "int"
    /\ \A k \in 1..Len(results) :
        /\ IsTimeoutRow(results[k]) => results[k][3] = "No"
        /\ results[k][4].t = "str" => IsTimeoutRow(results[k])

\* Both kinds of No side by side: one call answered 404, another never
\* answered.
C17_Witness ==
    /\ \E k \in 1..Len(results) : IsTimeoutRow(results[k]) /\ results[k][3] = "No"
    /\ \E k \in 1..Len(results) : results[k][4] = IntVal(404) /\ results[k][3] = "No"

\* C20: a call whose first k attempts fail (0 <= k <= 3) and whose attempt
\* k+1 is answered ends with that attempt, k+1 attempts in all, and returns
\* the status and the classification of that answer; no call, in flight or
\* finished, has made more than 4 attempts.
C20_RecoveryWithinBudget ==
    /\ \A out \in Finished :
        LET n == Len(out.log) IN
        /\ n >= 1 /\ n <= 4
        /\ out.log[n].kind = "response" =>
            /\ AllFailed(SubSeq(out.log, 1, n - 1))
            /\ out.status_code = IntVal(out.log[n].status_code)
            /\ out.resolves = (IF out.log[n].status_code \in {200, 301, 302}
                               THEN "Yes" ELSE "No")
    /\ \A call \in Calls : Len(call.log) <= 4 /\ AllFailed(call.log)

\* Three failed attempts, then the fourth answered 200: (Yes, 200).
C20_Witness ==
    \E out \in Finished :
        /\ out.log = <<RequestException, RequestException, RequestException, Response(200)>>
        /\ out.resolves = "Yes"
        /\ out.status_code = IntVal(200)

\* C15: one pause follows each page request that another request follows,
\* and none follows the last request: while the fetch runs every request
\* made was followed by a pause, and once it has returned after r requests
\* it has paused r-1 times, whether the last answer was the empty page or a
\* non-200 status.
C15_PausesBetweenRequests ==
    /\ pc = "fetch" => pauses = Len(reqLog)
    /\ (pc # "fetch" /\ reqLog # <<>>) => pauses = Len(reqLog) - 1

\* Three requests, two pauses, the last request answered with the empty page.
C15_Witness ==
    /\ pc = "fetched"
    /\ Len(reqLog) = 3
    /\ reqLog[3].status_code = 200
    /\ reqLog[3].size = 0
    /\ pauses = 2

\* The records of the first n pages of the catalog, in page order.
RECURSIVE PagesConcat(_, _)
PagesConcat(pages, n) ==
    IF n = 0 THEN <<>> ELSE PagesConcat(pages, n - 1) \o pages[n].data

\* C16: the page numbers requested are 1, 2, 3, ... in this order, the
\* request for the next page is made after the answers to all pages before
\* it were taken in, and the list built, and returned after the empty page,
\* is the concatenation of the pages' records in page order.
C16_PagesInOrder ==
    /\ \A j \in 1..Len(reqLog) : reqLog[j].page = j
    /\ pc = "fetch" =>
        /\ page = Len(reqLog) + 1
        /\ dois = PagesConcat(catalog, Len(reqLog))
    /\ (pc # "fetch" /\ reqLog # <<>> /\ reqLog[Len(reqLog)].status_code = 200) =>
        dois = PagesConcat(catalog, Len(reqLog) - 1)

\* Pages 1, 2 and 3 were requested in turn and the list holds page 1's
\* record before page 2's.
C16_Witness ==
    /\ pc = "fetched"
    /\ Len(reqLog) = 3
    /\ reqLog[3].page = 3
    /\ Len(dois) >= 2
    /\ dois[1] = catalog[1].data[1]
    /\ dois[Len(dois)] = catalog[2].data[Len(catalog[2].data)]

RECURSIVE SumCounts(_, _)
SumCounts(f, S) ==
    IF S = {} THEN 0
    ELSE LET v == CHOOSE x \in S : TRUE IN f[v] + SumCounts(f, S \ {v})

\* C19: the summary of the report maps each resolves value that occurs in a
\* row to the number of rows with it: only Yes and No occur, every count is
\* positive, the counts sum to the number of rows, which is the number of
\* records, and they are the numbers of Yes and No rows whatever the order
\* of the rows.
C19_SummaryCounts ==
    report.built =>
        /\ DOMAIN report.summary \subseteq {"Yes", "No"}
        /\ \A v \in {"Yes", "No"} :
            LET n == Cardinality({ k \in 1..Len(report.rows) : report.rows[k][3] = v }) IN
            IF n = 0 THEN v \notin DOMAIN report.summary
            ELSE v \in DOMAIN report.summary /\ report.summary[v] = n
        /\ SumCounts(report.summary, DOMAIN report.summary) = Len(dois)

\* A report of three rows with both values: the two counts sum to 3.
C19_Witness ==
    /\ report.built
    /\ Len(report.rows) = 3
    /\ DOMAIN report.summary = {"Yes", "No"}
    /\ report.summary["Yes"] + report.summary["No"] = 3

\* The header row as the reader returns it.
HeaderTexts == [j \in 1..Len(Header) |-> Chars[Header[j]]]

\* A Python str as a value: its characters.
PyStr(chars) == [t |-> "str", n |-> 0, chars |-> chars]

\* A Python int as a value.
PyInt(n) == [t |-> "int", n |-> n, chars |-> <<>>]

\* The value of cell j of a report row.
CellValue(row, j) ==
    IF j < Len(row) THEN PyStr(Chars[row[j]])
    ELSE IF row[j].t = "int" THEN PyInt(row[j].n) ELSE PyStr(Chars[row[j].s])

\* C11 as stated: reading the text generate_csv returns gives the header and
\* then, row by row, cells identical to the cells of the report, an integer
\* status included.
C11_RoundTripIdentical ==
    report.built =>
        LET parsed == csv_reader(report.csv) IN
        /\ Len(parsed) = Len(report.rows) + 1
        /\ parsed[1] = HeaderTexts
        /\ \A i \in 1..Len(report.rows) :
            /\ Len(parsed[i + 1]) = Len(report.rows[i])
            /\ \A j \in 1..Len(report.rows[i]) :
                PyStr(parsed[i + 1][j]) = CellValue(report.rows[i], j)

\* C11 amended: reading the text generate_csv returns gives the header and
\* then, row by row and in order, the text of every cell of the report: a str
\* cell comes back as it was, delimiters and quotes included, and an integer
\* status comes back as the str of its decimal digits.
C11_RoundTripTexts ==
    report.built =>
        csv_reader(report.csv) =
            <<HeaderTexts>> \o [i \in 1..Len(report.rows) |-> RowTexts(report.rows[i])]

\* A report with a row holding the delimiter in two fields and an integer
\* status, and a row holding the quote character.
C11_Witness ==
    /\ report.built
    /\ \E i \in 1..Len(report.rows) :
        /\ \E k \in DOMAIN Chars[report.rows[i][1]] : Chars[report.rows[i][1]][k] = Delimiter
        /\ \E k \in DOMAIN Chars[report.rows[i][2]] : Chars[report.rows[i][2]][k] = Delimiter
        /\ report.rows[i][4].t = "int"
    /\ \E i \in 1..Len(report.rows) :
        \E k \in DOMAIN Chars[report.rows[i][2]] : Chars[report.rows[i][2]][k] = QuoteChar


\* A step of the loop: one row is appended to results.
RowAppended == Len(results') = Len(results) + 1

\* The finished futures the loop has not taken yet, in completion order.
Waiting == early \o late

\* The texts of the cells of rows, row by row.
TextsOf(rows) == [i \in 1..Len(rows) |-> RowTexts(rows[i])]

\* The records of a CSV text behind its header.
CsvRows(text) == Tail(csv_reader(text))

C13_EveryCallFetches ==
    pc # "fetch" =>
        /\ reqLog # <<>>
        /\ reqLog[1].page = 1
        /\ dois = IF IsFailure(reqLog[Len(reqLog)]) THEN <<>>
                  ELSE PagesConcat(catalog, Len(reqLog) - 1)

====
